---- MODULE Spec2Model ----
(***************************************************************************)
(* Model of the certificate resolver (FetchCurrentDNSCryptCert,            *)
(* dnsExchange) and of the response cache plugins (PluginCache,            *)
(* PluginCacheResponse) of dnscrypt-proxy-r2.                              *)
(***************************************************************************)
EXTENDS Integers, Sequences, FiniteSets, TLC

\* ------------------------------------------------------------------------
\* Bounds of the model
\* ------------------------------------------------------------------------
MaxCerts == 2
MaxSerial == 2
MaxRelays == 2
Now == 1000000
NumKeys == 2
MaxQueries == 2
NumIds == 2
MaxRecordTTL == 2
MaxClock == 123
MaxFine == 3
MaxDelay == 1
TicksPerSecond == 2
CacheCapacity == 1
CacheMinTTL == 1
CacheMaxTTL == 1
CacheNegMinTTL == 1
CacheNegMaxTTL == 2
MaxTTLValue == 2
MaxRRs == 2
MaxNameLen == 3
MaxLogClock == 5
MaxLogCalls == 6
NumFlows == 2
MaxFlowQueries == 3
MaxTxtLen == 5

\* ------------------------------------------------------------------------
\* Program constants
\* ------------------------------------------------------------------------
PublicKeySize == 32
MinCertLen == 124
SecondsPerDay == 86400
ForwardSecurityDays == 7
SecondsPerMinute == 60

UndefinedConstruction == 0
XSalsa20Poly1305 == 1
XChacha20Poly1305 == 2
CertMagic == "DNSC"
\* dlog: the severities, and the flood control (floodDelay in seconds)
SeverityDebug == 0
SeverityInfo == 1
SeverityNotice == 2
SeverityWarning == 3
SeverityError == 4
floodDelay == 5
floodMinRepeats == 3

\* *dns.Msg values: the nil pointer, or a message with its answer section
NilMsg == [isNil |-> TRUE, Answer |-> <<>>]
Msg(answer) == [isNil |-> FALSE, Answer |-> answer]

\* *Endpoint values: a relay of the configuration, or the nil pointer
Relay(n) == <<"relay", n>>
NoRelay == <<"nil">>

VARIABLES
    \* --- FetchCurrentDNSCryptCert: inputs
    pkLen,                \* len(pk)
    relays,               \* relays []*Endpoint, a sequence of relay ids
    certIgnoreTimestamp,  \* proxy.certIgnoreTimestamp
    \* --- FetchCurrentDNSCryptCert: locals
    pc,                   \* position in the function
    i,                    \* index of the relay loop
    in,                   \* in *dns.Msg
    err,                  \* err != nil
    relay_f,              \* relay_f
    workingSet,           \* workingSet []*Endpoint
    k,                    \* index of the loop over in.Answer
    certInfo,             \* certInfo CertInfo
    highestSerial,        \* highestSerial
    result,               \* what the call returned
    \* --- history of the _dnsExchange calls made (one record per dnsExchange)
    calls,
    \* --- the response cache and one query flow through its two plugins
    clock,                \* time.Now(), in ticks
    heap,                 \* the *dns.Msg objects, by address
    cache,                \* conceptions.Cache: key -> CachedResponse
    session,              \* pluginsState and the query of the flow
    stage,                \* where the flow stands in the plugin pipeline
    queries,              \* the number of queries that entered the pipeline
    \* --- one call of getMinTTL
    ttlMsg,               \* msg *dns.Msg
    ttlConfig,            \* minTTL, maxTTL, CacheNegMinTTL, CacheNegMaxTTL
    ttlResult,            \* the time.Duration returned, in ticks
    \* --- calls of computeCacheKey
    keyArgs,              \* the questions the keys are computed for
    keyFed,               \* the bytes written to the hash, one string per call
    keySums,              \* the keys returned, one per call
    \* --- dlog
    globals,              \* _globals
    logClock,             \* time.Now(), in seconds since the start
    logCalls,             \* the number of logf calls made
    lastLog,              \* the last logf call: its arguments and what it did
    \* --- query flows running the two cache plugins side by side
    flows,                \* per flow: its pluginsState, its query, its position
    flowQueries,          \* the number of queries the flows have taken up
    \* --- one call of packTxtString
    txtBs,                \* bs: the bytes of s
    txtI,                 \* i, counted from 1
    txtMsg,               \* msg
    txtPc                 \* "loop" while the loop runs, "done" once msg is returned

certVars == <<pkLen, relays, certIgnoreTimestamp, pc, i, in, err, relay_f,
              workingSet, k, certInfo, highestSerial, result, calls>>

cacheVars == <<clock, heap, cache, session, stage, queries>>

ttlVars == <<ttlMsg, ttlConfig, ttlResult>>

keyVars == <<keyArgs, keyFed, keySums>>

logVars == <<globals, logClock, logCalls, lastLog>>

flowVars == <<flows, flowQueries>>

txtVars == <<txtBs, txtI, txtMsg, txtPc>>

restVars == <<ttlVars, keyVars, logVars, flowVars, txtVars>>

vars == <<certVars, cacheVars, restVars>>

\* ------------------------------------------------------------------------
\* Certificate candidates: one decoded TXT record of the answer
\* ------------------------------------------------------------------------
\* validity windows, placed around the time of the call
Windows ==
    { <<Now - 1, Now + 1>>,                                        \* short, now inside
      <<Now - ForwardSecurityDays * SecondsPerDay, Now + 1>>,      \* 7 days + 1 s, now inside
      <<Now, Now + ForwardSecurityDays * SecondsPerDay>>,          \* exactly 7 days, now = start
      <<Now - 1, Now>>,                                            \* now = end
      <<Now + 1, Now + 2>>,                                        \* not yet valid
      <<Now - 2, Now - 1>>,                                        \* expired
      <<Now, Now>>,                                                \* start = end
      <<Now + 1, Now - 1>> }                                       \* start > end

Cert(rrtype, len, magic, ver, sig, serial, w) ==
    [rrtype |-> rrtype, len |-> len, magic |-> magic, esVersion |-> ver,
     sigOk |-> sig, serial |-> serial, tsBegin |-> w[1], tsEnd |-> w[2]]

WellFormedCerts ==
    { Cert("TXT", MinCertLen, CertMagic, v, TRUE, s, w) :
        v \in {1, 2}, s \in 0..MaxSerial, w \in Windows }

\* records with one defect each, carrying the highest serial and a good window
MalformedCerts ==
    { Cert("A", MinCertLen, CertMagic, 2, TRUE, MaxSerial, <<Now - 1, Now + 1>>),
      Cert("TXT", MinCertLen - 1, CertMagic, 2, TRUE, MaxSerial, <<Now - 1, Now + 1>>),
      Cert("TXT", MinCertLen, "XXXX", 2, TRUE, MaxSerial, <<Now - 1, Now + 1>>),
      Cert("TXT", MinCertLen, CertMagic, 3, TRUE, MaxSerial, <<Now - 1, Now + 1>>),
      Cert("TXT", MinCertLen, CertMagic, 2, FALSE, MaxSerial, <<Now - 1, Now + 1>>) }

Candidates == WellFormedCerts \cup MalformedCerts

SeqsUpTo(S, n) == UNION { [1..m -> S] : m \in 0..n }

\* the answer sections a server may send
CertAnswers == SeqsUpTo(Candidates, MaxCerts)

\* the answer sections used when the relay loop is explored
RelayAnswers ==
    { <<>>,
      << Cert("TXT", MinCertLen, CertMagic, 2, TRUE, 1, <<Now - 1, Now + 1>>) >> }

\* bytes [72:104] and [104:112] of the k-th record: every record of an answer
\* carries a server key and a client magic of its own
ServerPkOf(pos) == <<"pk", pos>>
MagicQueryOf(pos) == <<"magic", pos>>
NoBytes == <<"zero">>

\* ComputeSharedKey: the key derivation collaborator
ComputeSharedKey(cryptoConstruction, serverPk) == <<"shared", cryptoConstruction, serverPk>>

\* ------------------------------------------------------------------------
\* The checks of the loop over in.Answer (FetchCurrentDNSCryptCert)
\* ------------------------------------------------------------------------
now == Now

IsTXT(c) == c.rrtype = "TXT"

TooShort(c) == c.len < MinCertLen

MagicOk(c) == c.magic = CertMagic

VersionSupported(c) == c.esVersion \in {1, 2}

ConstructionOf(c) ==
    CASE c.esVersion = 1 -> XSalsa20Poly1305
      [] c.esVersion = 2 -> XChacha20Poly1305
      [] OTHER -> UndefinedConstruction

\* the signature is not verified
SignatureOk_Skipped(c) == TRUE

\* ed25519.Verify(pk, binCert[72:], binCert[8:72])
SignatureOk(c) == c.sigOk

EndsBeforeStart(c) == c.tsBegin >= c.tsEnd

ForwardSecurityOf(c) == ~(c.tsEnd - c.tsBegin > SecondsPerDay * ForwardSecurityDays)

\* only the end of the window is compared with the current time
TimestampInvalid_EndOnly(c) ==
    ~certIgnoreTimestamp /\ now > c.tsEnd

TimestampInvalid(c) ==
    ~certIgnoreTimestamp /\ (now > c.tsEnd \/ now < c.tsBegin)

\* the comparison of the serials turned around
Superseded_Reversed(serial, hs) == serial > hs

Superseded(serial, hs) == serial < hs

KeepPrevious(serial, hs, cons, ci) ==
    serial = hs /\ cons < ci.CryptoConstruction

ConstructionSupported(cons) ==
    ~(cons # XChacha20Poly1305 /\ cons # XSalsa20Poly1305)

ZeroCertInfo ==
    [ServerPk |-> NoBytes, SharedKey |-> NoBytes, MagicQuery |-> NoBytes,
     CryptoConstruction |-> UndefinedConstruction, ForwardSecurity |-> FALSE]

\* the magic query of the record is not copied
Accept_KeepsMagic(c, pos, ci) ==
    [ci EXCEPT !.SharedKey = ComputeSharedKey(ConstructionOf(c), ServerPkOf(pos)),
               !.CryptoConstruction = ConstructionOf(c),
               !.ServerPk = ServerPkOf(pos)]

Accept(c, pos, ci) ==
    [ci EXCEPT !.SharedKey = ComputeSharedKey(ConstructionOf(c), ServerPkOf(pos)),
               !.CryptoConstruction = ConstructionOf(c),
               !.ServerPk = ServerPkOf(pos),
               !.MagicQuery = MagicQueryOf(pos)]

\* one iteration of the loop: the record c at position pos of the answer,
\* with the CertInfo ci and the highest serial hs before it
ProcessCandidate(c, pos, ci, hs) ==
    LET skip == [certInfo |-> ci, highestSerial |-> hs]
        ci1  == [ci EXCEPT !.ForwardSecurity = ForwardSecurityOf(c)]
        skip1 == [certInfo |-> ci1, highestSerial |-> hs]
    IN  IF ~IsTXT(c) THEN skip
        ELSE IF TooShort(c) THEN skip
        ELSE IF ~MagicOk(c) THEN skip
        ELSE IF ~VersionSupported(c) THEN skip
        ELSE IF ~SignatureOk(c) THEN skip
        ELSE IF EndsBeforeStart(c) THEN skip
        ELSE IF TimestampInvalid(c) THEN skip1
        ELSE IF Superseded(c.serial, hs) THEN skip1
        ELSE IF KeepPrevious(c.serial, hs, ConstructionOf(c), ci1) THEN skip1
        ELSE IF ~ConstructionSupported(ConstructionOf(c)) THEN skip1
        ELSE [certInfo |-> Accept(c, pos, ci1), highestSerial |-> c.serial]

\* ------------------------------------------------------------------------
\* dnsExchange and _dnsExchange
\* ------------------------------------------------------------------------
\* what one _dnsExchange attempt returns: a failure, or a message
ExchangeOutcomes(answers) ==
    { [err |-> TRUE, response |-> NilMsg] } \cup
    { [err |-> FALSE, response |-> Msg(a)] : a \in answers }

\* a failed attempt is retried whether or not a relay was given
NeedsRetry_Always(first, relayAddr) == first.err

NeedsRetry(first, relayAddr) == first.err /\ relayAddr # NoRelay

\* the flag is not set when the direct retry is made
dnsExchange_FlagNotSet(relayAddr, first, second) ==
    IF NeedsRetry(first, relayAddr)
    THEN [response |-> second.response, err |-> second.err,
          relay_f |-> (relayAddr = NoRelay), attempts |-> <<relayAddr, NoRelay>>]
    ELSE [response |-> first.response, err |-> first.err,
          relay_f |-> (relayAddr = NoRelay), attempts |-> <<relayAddr>>]

\* first: the outcome of the attempt with relayAddr; second: the outcome of
\* the direct retry, read only when the retry is made
dnsExchange(relayAddr, first, second) ==
    IF NeedsRetry(first, relayAddr)
    THEN [response |-> second.response, err |-> second.err, relay_f |-> TRUE,
          attempts |-> <<relayAddr, NoRelay>>]
    ELSE [response |-> first.response, err |-> first.err,
          relay_f |-> (relayAddr = NoRelay), attempts |-> <<relayAddr>>]

CallRecord(relayAddr, first, r) ==
    [relay |-> relayAddr, firstErr |-> first.err, attempts |-> r.attempts,
     err |-> r.err, relay_f |-> r.relay_f, response |-> r.response]

\* ------------------------------------------------------------------------
\* The response cache: messages, the store, the state of one query
\* ------------------------------------------------------------------------
Keys == 1..NumKeys
QueryIds == 1..NumIds
MaxMsgs == NumKeys + 2
Ptrs == 1..MaxMsgs

\* an address no message lives at yet; 0 is the nil pointer
FreeMsg ==
    [alloc |-> FALSE, Id |-> 0, Response |-> FALSE, Compress |-> FALSE,
     Rcode |-> "Success", Truncated |-> FALSE,
     Answer |-> <<>>, Ns |-> <<>>, Extra |-> <<>>]

RR(isOpt, ttl) == [opt |-> isOpt, Ttl |-> ttl]

\* the record sections of the responses an upstream server sends
Sections ==
    { [Answer |-> <<RR(FALSE, MaxRecordTTL), RR(FALSE, 1)>>, Ns |-> <<RR(FALSE, 0)>>,
       Extra |-> <<RR(TRUE, MaxRecordTTL), RR(FALSE, MaxRecordTTL)>>],
      [Answer |-> <<>>, Ns |-> <<RR(FALSE, MaxRecordTTL)>>, Extra |-> <<>>],
      [Answer |-> <<>>, Ns |-> <<>>, Extra |-> <<RR(TRUE, MaxRecordTTL)>>] }

Rcodes == {"Success", "NameError", "NotAuth", "Refused", "ServerFailure"}

Response(rcode, tc, sec) ==
    [alloc |-> TRUE, Id |-> 0, Response |-> TRUE, Compress |-> FALSE,
     Rcode |-> rcode, Truncated |-> tc,
     Answer |-> sec.Answer, Ns |-> sec.Ns, Extra |-> sec.Extra]

Responses ==
    { Response(rc, FALSE, sec) : rc \in Rcodes, sec \in Sections } \cup
    { Response(rc, TRUE, CHOOSE sec \in Sections : sec.Answer # <<>>) :
        rc \in {"Success", "Refused"} }

\* a key of the store with nothing under it
NoEntry == [present |-> FALSE, msg |-> 0, expiration |-> 0]

CachedResponse(msg, expiration) ==
    [present |-> TRUE, msg |-> msg, expiration |-> expiration]

NewSession(id, key) ==
    [Id |-> id, hash_key |-> key, synthResponse |-> 0, state |-> "none",
     CacheHit |-> FALSE, stale |-> 0, response |-> 0]

CacheIdle ==
    /\ clock = 0
    /\ heap = [p \in Ptrs |-> FreeMsg]
    /\ cache = [key \in Keys |-> NoEntry]
    /\ session = NewSession(1, 1)
    /\ stage = "idle"
    /\ queries = 0

\* no call of getMinTTL has returned
NotComputed == 0 - 1

TTLIdle ==
    /\ ttlMsg = FreeMsg
    /\ ttlConfig = [minTTL |-> 0, maxTTL |-> 0, negMinTTL |-> 0, negMaxTTL |-> 0]
    /\ ttlResult = NotComputed

KeyIdle ==
    /\ keyArgs = <<>>
    /\ keyFed = <<>>
    /\ keySums = <<>>

\* a nil *string
NilString == [isNil |-> TRUE, value |-> <<>>]

StringPtr(str) == [isNil |-> FALSE, value |-> str]

NoLogCall ==
    [severity |-> SeverityDebug, message |-> <<>>, outcome |-> "none",
     returned |-> NilString]

\* _globals after dlog.Init and the parsing of the flags
GlobalsWith(level, syslog, file) ==
    [logLevel |-> level, useSyslog |-> syslog, systemLogger |-> FALSE,
     fileName |-> file, outFd |-> FALSE,
     lastMessage |-> <<>>, lastOccurrence |-> 0, occurrences |-> 0]

LogIdle ==
    /\ globals = GlobalsWith(SeverityDebug, FALSE, FALSE)
    /\ logClock = 0
    /\ logCalls = 0
    /\ lastLog = NoLogCall

FlowIds == 1..NumFlows

\* a flow between two queries; synth is the local variable of PluginCache.Eval
IdleFlow ==
    [Id |-> 1, hash_key |-> 1, synthResponse |-> 0, state |-> "none",
     CacheHit |-> FALSE, stale |-> 0, response |-> 0, stage |-> "idle",
     synth |-> NoEntry]

FlowsIdle ==
    /\ flows = [f \in FlowIds |-> IdleFlow]
    /\ flowQueries = 0

TxtIdle ==
    /\ txtBs = <<>>
    /\ txtI = 1
    /\ txtMsg = <<>>
    /\ txtPc = "loop"

RestIdle == TTLIdle /\ KeyIdle /\ LogIdle /\ FlowsIdle /\ TxtIdle

\* ------------------------------------------------------------------------
\* FetchCurrentDNSCryptCert, one action per step
\* ------------------------------------------------------------------------
Failure(status) == [status |-> status, workingSet |-> <<>>, certInfo |-> ZeroCertInfo]

\* the call has not returned
NotReturned == [status |-> "running", workingSet |-> <<>>, certInfo |-> ZeroCertInfo]

InitCertWith(relaySet) ==
    /\ pkLen \in {PublicKeySize - 1, PublicKeySize}
    /\ relays \in relaySet
    /\ certIgnoreTimestamp \in BOOLEAN
    /\ pc = "entry"
    /\ i = 0
    /\ in = NilMsg
    /\ err = FALSE
    /\ relay_f = FALSE
    /\ workingSet = <<>>
    /\ k = 0
    /\ certInfo = ZeroCertInfo
    /\ highestSerial = 0
    /\ result = NotReturned
    /\ calls = <<>>
    /\ CacheIdle
    /\ RestIdle

Entry ==
    /\ pc = "entry"
    /\ IF pkLen # PublicKeySize
       THEN /\ result' = Failure("Invalid public key length")
            /\ pc' = "done"
            /\ i' = i
       ELSE /\ result' = result
            /\ IF Len(relays) > 0
               THEN pc' = "relayLoop" /\ i' = 1
               ELSE pc' = "direct" /\ i' = i
    /\ UNCHANGED <<cacheVars, restVars, pkLen, relays, certIgnoreTimestamp, in, err, relay_f,
                   workingSet, k, certInfo, highestSerial, calls>>

RelayStep(answers) ==
    /\ pc = "relayLoop"
    /\ i <= Len(relays)
    /\ \E first \in ExchangeOutcomes(answers) :
         \E second \in (IF NeedsRetry(first, relays[i])
                        THEN ExchangeOutcomes(answers) ELSE {first}) :
           LET r == dnsExchange(relays[i], first, second) IN
             /\ in' = r.response
             /\ err' = r.err
             /\ relay_f' = r.relay_f
             /\ calls' = Append(calls, CallRecord(relays[i], first, r))
             /\ workingSet' = IF ~r.err /\ ~r.relay_f
                              THEN Append(workingSet, relays[i])
                              ELSE workingSet
    /\ i' = i + 1
    /\ UNCHANGED <<cacheVars, restVars, pkLen, relays, certIgnoreTimestamp, pc, k, certInfo,
                   highestSerial, result>>

RelayEnd ==
    /\ pc = "relayLoop"
    /\ i > Len(relays)
    /\ IF Len(workingSet) < 1
       THEN result' = Failure("all relays failed") /\ pc' = "done"
       ELSE result' = result /\ pc' = "checkErr"
    /\ UNCHANGED <<cacheVars, restVars, pkLen, relays, certIgnoreTimestamp, i, in, err, relay_f,
                   workingSet, k, certInfo, highestSerial, calls>>

DirectExchange(answers) ==
    /\ pc = "direct"
    /\ \E first \in ExchangeOutcomes(answers) :
         \E second \in (IF NeedsRetry(first, NoRelay)
                        THEN ExchangeOutcomes(answers) ELSE {first}) :
           LET r == dnsExchange(NoRelay, first, second) IN
             /\ in' = r.response
             /\ err' = r.err
             /\ calls' = Append(calls, CallRecord(NoRelay, first, r))
    /\ pc' = "checkErr"
    /\ UNCHANGED <<cacheVars, restVars, pkLen, relays, certIgnoreTimestamp, i, relay_f, workingSet,
                   k, certInfo, highestSerial, result>>

CheckErr ==
    /\ pc = "checkErr"
    /\ IF err
       THEN /\ result' = Failure("transport")
            /\ pc' = "done"
            /\ UNCHANGED <<k, certInfo, highestSerial>>
       ELSE /\ pc' = "parse"
            /\ certInfo' = ZeroCertInfo
            /\ highestSerial' = 0
            /\ k' = 1
            /\ result' = result
    /\ UNCHANGED <<cacheVars, restVars, pkLen, relays, certIgnoreTimestamp, i, in, err, relay_f,
                   workingSet, calls>>

ParseCandidate ==
    /\ pc = "parse"
    /\ k <= Len(in.Answer)
    /\ LET r == ProcessCandidate(in.Answer[k], k, certInfo, highestSerial) IN
         /\ certInfo' = r.certInfo
         /\ highestSerial' = r.highestSerial
    /\ k' = k + 1
    /\ UNCHANGED <<cacheVars, restVars, pkLen, relays, certIgnoreTimestamp, pc, i, in, err, relay_f,
                   workingSet, result, calls>>

Return ==
    /\ pc = "parse"
    /\ k > Len(in.Answer)
    /\ result' = IF certInfo.CryptoConstruction = UndefinedConstruction
                 THEN [status |-> "No useable certificate found",
                       workingSet |-> <<>>, certInfo |-> certInfo]
                 ELSE [status |-> "ok", workingSet |-> workingSet,
                       certInfo |-> certInfo]
    /\ pc' = "done"
    /\ UNCHANGED <<cacheVars, restVars, pkLen, relays, certIgnoreTimestamp, i, in, err, relay_f,
                   workingSet, k, certInfo, highestSerial, calls>>

\* the certificate arbitration, explored over every answer, without relays
InitCert == InitCertWith({<<>>})

NextCert ==
    \/ Entry
    \/ DirectExchange(CertAnswers)
    \/ CheckErr
    \/ ParseCandidate
    \/ Return

SpecCert == InitCert /\ [][NextCert]_vars

\* the relay loop, explored over every list of up to MaxRelays relays
RelayLists == UNION { [1..n -> {Relay(m) : m \in 1..MaxRelays}] : n \in 0..MaxRelays }

InitRelay == InitCertWith(RelayLists)

NextRelay ==
    \/ Entry
    \/ RelayStep(RelayAnswers)
    \/ RelayEnd
    \/ DirectExchange(RelayAnswers)
    \/ CheckErr
    \/ ParseCandidate
    \/ Return

SpecRelay == InitRelay /\ [][NextRelay]_vars

FairSpecRelay == SpecRelay /\ WF_vars(NextRelay)

\* ------------------------------------------------------------------------
\* The response cache: updateTTL, getMinTTL, the two plugins
\* ------------------------------------------------------------------------
Second == TicksPerSecond
Minute == SecondsPerMinute * Second

\* the remaining time is not floored at zero
RemainingTTL_NoFloor(expiration, nowT) == (expiration - nowT) \div Second

\* the TTL updateTTL writes, from the expiration and the time it reads
RemainingTTL(expiration, nowT) ==
    LET until == expiration - nowT
    IN  IF until > 0 THEN until \div Second ELSE 0

SetTTL(rrs, ttl) == [j \in DOMAIN rrs |-> [rrs[j] EXCEPT !.Ttl = ttl]]

SetTTLNonOpt(rrs, ttl) ==
    [j \in DOMAIN rrs |-> IF rrs[j].opt THEN rrs[j] ELSE [rrs[j] EXCEPT !.Ttl = ttl]]

\* updateTTL on the message at address m, run at time nowT
updateTTL(h, m, expiration, nowT) ==
    LET ttl == RemainingTTL(expiration, nowT)
    IN  [h EXCEPT ![m].Answer = SetTTL(@, ttl),
                  ![m].Ns = SetTTL(@, ttl),
                  ![m].Extra = SetTTLNonOpt(@, ttl)]

\* only the first record is looked at
LowerTo_FirstOnly(ttl, rrs, j) ==
    IF Len(rrs) >= 1 /\ rrs[1].Ttl < ttl THEN rrs[1].Ttl ELSE ttl

RECURSIVE LowerTo(_, _, _)
\* the loops of getMinTTL: ttl lowered to the smallest TTL of rrs[j..]
LowerTo(ttl, rrs, j) ==
    IF j > Len(rrs) THEN ttl
    ELSE LowerTo(IF rrs[j].Ttl < ttl THEN rrs[j].Ttl ELSE ttl, rrs, j + 1)

\* a response without records is treated as one with records
getMinTTL_EmptyNotNegative(msg, minTTL, maxTTL, negMinTTL, negMaxTTL) ==
    IF msg.Rcode # "Success" /\ msg.Rcode # "NameError"
    THEN negMinTTL * Second
    ELSE LET start == IF msg.Rcode = "Success" THEN maxTTL ELSE negMaxTTL
             lowered == IF Len(msg.Answer) > 0
                        THEN LowerTo(start, msg.Answer, 1)
                        ELSE LowerTo(start, msg.Ns, 1)
             floor == IF msg.Rcode = "Success" THEN minTTL ELSE negMinTTL
             ttl == IF lowered < floor THEN floor ELSE lowered
         IN  ttl * Minute

\* getMinTTL: a duration, in ticks
getMinTTL(msg, minTTL, maxTTL, negMinTTL, negMaxTTL) ==
    IF (msg.Rcode # "Success" /\ msg.Rcode # "NameError")
       \/ (Len(msg.Answer) <= 0 /\ Len(msg.Ns) <= 0)
    THEN negMinTTL * Second
    ELSE LET start == IF msg.Rcode = "Success" THEN maxTTL ELSE negMaxTTL
             lowered == IF Len(msg.Answer) > 0
                        THEN LowerTo(start, msg.Answer, 1)
                        ELSE LowerTo(start, msg.Ns, 1)
             floor == IF msg.Rcode = "Success" THEN minTTL ELSE negMinTTL
             ttl == IF lowered < floor THEN floor ELSE lowered
         IN  ttl * Minute

\* conceptions.Cache: a store of at most CacheCapacity entries
Resident(c) == { key \in Keys : c[key].present }

CacheGet(c, key) == c[key]

\* the keys one of which Add drops to make room for key
Victims(c, key) ==
    IF c[key].present \/ Cardinality(Resident(c)) < CacheCapacity
    THEN {key}
    ELSE Resident(c)

CacheAdd(c, key, entry, victim) ==
    [x \in Keys |-> IF x = key THEN entry
                    ELSE IF x = victim THEN NoEntry
                    ELSE c[x]]

\* the addresses the store or the flow still hold
Referenced(c, ses) ==
    { c[key].msg : key \in Resident(c) }
        \cup ({ses.synthResponse, ses.stale, ses.response} \ {0})

\* memory no one holds is reclaimed
Collect(h, c, ses) ==
    [p \in Ptrs |-> IF p \in Referenced(c, ses) THEN h[p] ELSE FreeMsg]

FreePtr(h) == CHOOSE p \in Ptrs : ~h[p].alloc /\ \A q \in Ptrs : ~h[q].alloc => p <= q

\* Before in the place of After
Expired_Reversed(nowT, expiration) == nowT < expiration

\* time.Now().After(expiration)
Expired(nowT, expiration) == nowT > expiration

\* the truncation flag is not looked at
Cacheable_IgnoresTruncated(msg) ==
    ~(msg.Rcode # "Success" /\ msg.Rcode # "NameError" /\ msg.Rcode # "NotAuth")

\* the statuses and the flag PluginCacheResponse.Eval lets through
Cacheable(msg) ==
    /\ ~(msg.Rcode # "Success" /\ msg.Rcode # "NameError" /\ msg.Rcode # "NotAuth")
    /\ ~msg.Truncated

CertIdle ==
    /\ pkLen = PublicKeySize
    /\ relays = <<>>
    /\ certIgnoreTimestamp = FALSE
    /\ pc = "entry"
    /\ i = 0
    /\ in = NilMsg
    /\ err = FALSE
    /\ relay_f = FALSE
    /\ workingSet = <<>>
    /\ k = 0
    /\ certInfo = ZeroCertInfo
    /\ highestSerial = 0
    /\ result = NotReturned
    /\ calls = <<>>

\* a query enters the pipeline
NewQuery ==
    /\ stage \in {"idle", "done"}
    /\ queries < MaxQueries
    /\ queries' = queries + 1
    /\ \E id \in QueryIds, key \in Keys :
         /\ session' = NewSession(id, key)
         /\ heap' = Collect(heap, cache, NewSession(id, key))
    /\ stage' = "lookup"
    /\ UNCHANGED <<clock, cache, certVars, restVars>>

\* PluginCache.Eval
PluginCacheEval ==
    /\ stage = "lookup"
    /\ LET e == CacheGet(cache, session.hash_key)
           h1 == [heap EXCEPT ![e.msg].Id = session.Id,
                              ![e.msg].Response = TRUE,
                              ![e.msg].Compress = TRUE]
       IN  IF ~e.present
           THEN /\ stage' = "resolve"
                /\ UNCHANGED <<clock, heap, session>>
           ELSE IF Expired(clock, e.expiration)
           THEN /\ heap' = h1
                /\ session' = [session EXCEPT !.stale = e.msg]
                /\ stage' = "resolve"
                /\ clock' = clock
           ELSE \E d \in 0..MaxDelay :
                /\ clock + d <= MaxClock
                /\ clock' = clock + d
                /\ heap' = updateTTL(h1, e.msg, e.expiration, clock + d)
                /\ session' = [session EXCEPT !.synthResponse = e.msg,
                                              !.state = "synth",
                                              !.CacheHit = TRUE]
                /\ stage' = "done"
    /\ UNCHANGED <<cache, queries, certVars, restVars>>

\* the upstream server answers the query
Resolve ==
    /\ stage = "resolve"
    /\ \E r \in Responses :
         LET p == FreePtr(heap) IN
           /\ heap' = [heap EXCEPT ![p] = [r EXCEPT !.Id = session.Id]]
           /\ session' = [session EXCEPT !.response = p]
    /\ stage' = "insert"
    /\ UNCHANGED <<clock, cache, queries, certVars, restVars>>

\* PluginCacheResponse.Eval
PluginCacheResponseEval ==
    /\ stage = "insert"
    /\ LET m == session.response
           msg == heap[m]
       IN  IF ~Cacheable(msg)
           THEN UNCHANGED <<clock, heap, cache>>
           ELSE \E d \in 0..MaxDelay, victim \in Victims(cache, session.hash_key) :
                LET ttl == getMinTTL(msg, CacheMinTTL, CacheMaxTTL,
                                     CacheNegMinTTL, CacheNegMaxTTL)
                    expiration == clock + ttl
                IN  /\ clock + d <= MaxClock
                    /\ cache' = CacheAdd(cache, session.hash_key,
                                         CachedResponse(m, expiration), victim)
                    /\ heap' = updateTTL(heap, m, expiration, clock + d)
                    /\ clock' = clock + d
    /\ stage' = "done"
    /\ UNCHANGED <<session, queries, certVars, restVars>>

\* time passes: a tick shortly after a whole minute, or a minute
Tick ==
    /\ \E d \in {1, Minute} :
         /\ clock + d <= MaxClock
         /\ d = 1 => (clock % Minute) < MaxFine
         /\ clock' = clock + d
    /\ UNCHANGED <<heap, cache, session, stage, queries, certVars, restVars>>

InitCache == CertIdle /\ CacheIdle /\ RestIdle

NextCache ==
    \/ NewQuery
    \/ PluginCacheEval
    \/ Resolve
    \/ PluginCacheResponseEval
    \/ Tick

SpecCache == InitCache /\ [][NextCache]_vars

\* ------------------------------------------------------------------------
\* getMinTTL alone, over every response and every configuration
\* ------------------------------------------------------------------------
TTLValues == 0..MaxTTLValue

RRsOf(ttls) == [j \in DOMAIN ttls |-> RR(FALSE, ttls[j])]

\* the responses getMinTTL is called with: any status, up to MaxRRs answer
\* records and up to one authority record
TTLMsgs ==
    { Response(rc, FALSE, [Answer |-> RRsOf(a), Ns |-> RRsOf(n), Extra |-> <<>>]) :
        rc \in Rcodes, a \in SeqsUpTo(TTLValues, MaxRRs), n \in SeqsUpTo(TTLValues, 1) }

TTLConfigs == [minTTL : TTLValues, maxTTL : TTLValues,
               negMinTTL : TTLValues, negMaxTTL : TTLValues]

InitMinTTL ==
    /\ CertIdle
    /\ CacheIdle
    /\ ttlMsg \in TTLMsgs
    /\ ttlConfig \in TTLConfigs
    /\ ttlResult = NotComputed
    /\ KeyIdle
    /\ LogIdle
    /\ FlowsIdle
    /\ TxtIdle

CallGetMinTTL ==
    /\ ttlResult = NotComputed
    /\ ttlResult' = getMinTTL(ttlMsg, ttlConfig.minTTL, ttlConfig.maxTTL,
                              ttlConfig.negMinTTL, ttlConfig.negMaxTTL)
    /\ UNCHANGED <<ttlMsg, ttlConfig, certVars, cacheVars, keyVars, logVars, flowVars, txtVars>>

NextMinTTL == CallGetMinTTL

SpecMinTTL == InitMinTTL /\ [][NextMinTTL]_vars

\* ------------------------------------------------------------------------
\* computeCacheKey: names are strings of bytes ('.' 46, 'A' 65, 'a' 97)
\* ------------------------------------------------------------------------
NameBytes == {46, 65, 97}

Names == SeqsUpTo(NameBytes, MaxNameLen)

\* dns.Fqdn: the name with a trailing dot
Fqdn(name) ==
    IF Len(name) > 0 /\ name[Len(name)] = 46 THEN name ELSE Append(name, 46)

\* strings.ToLower, byte by byte
ToLower(name) ==
    [j \in DOMAIN name |-> IF name[j] >= 65 /\ name[j] <= 90 THEN name[j] + 32 ELSE name[j]]

\* dns.CanonicalName
CanonicalName(name) == ToLower(Fqdn(name))

\* binary.BigEndian.PutUint16
PutUint16(v) == <<v \div 256, v % 256>>

\* the flag byte is left at zero
HashedBytes_NoFlag(dnssec, Qtype, Qclass, Name) ==
    PutUint16(Qtype) \o PutUint16(Qclass) \o <<0>> \o CanonicalName(Name)

\* what computeCacheKey writes to the hash: tmp[:], then the canonical name
HashedBytes(dnssec, Qtype, Qclass, Name) ==
    PutUint16(Qtype) \o PutUint16(Qclass) \o <<IF dnssec THEN 1 ELSE 0>>
        \o CanonicalName(Name)

\* sha512.New512_256: a digest that stands for the bytes written
Sum512_256(bytes) == [digest |-> bytes]

computeCacheKey(dnssec, Qtype, Qclass, Name) ==
    Sum512_256(HashedBytes(dnssec, Qtype, Qclass, Name))

Questions ==
    [dnssec : BOOLEAN, Qtype : {1, 256}, Qclass : {1, 256}, Name : Names]

InitKey ==
    /\ CertIdle
    /\ CacheIdle
    /\ TTLIdle
    /\ keyArgs \in [1..2 -> Questions]
    /\ keyFed = <<>>
    /\ keySums = <<>>
    /\ LogIdle
    /\ FlowsIdle
    /\ TxtIdle

CallComputeCacheKey ==
    /\ Len(keySums) < Len(keyArgs)
    /\ LET q == keyArgs[Len(keySums) + 1] IN
         /\ keyFed' = Append(keyFed, HashedBytes(q.dnssec, q.Qtype, q.Qclass, q.Name))
         /\ keySums' = Append(keySums, computeCacheKey(q.dnssec, q.Qtype, q.Qclass, q.Name))
    /\ UNCHANGED <<keyArgs, certVars, cacheVars, ttlVars, logVars, flowVars, txtVars>>

NextKey == CallComputeCacheKey

SpecKey == InitKey /\ [][NextKey]_vars

\* ------------------------------------------------------------------------
\* dlog: logf and the flood control
\* ------------------------------------------------------------------------
Severities == SeverityDebug..SeverityError

\* the severities of the calls made: Debugf, Noticef and Errorf
CallSeverities == {SeverityDebug, SeverityNotice, SeverityError}

\* the formatted messages: text, text with a newline, blanks only
Formatted == { <<"a">>, <<"a", "\n">>, <<" ", "b">>, <<" ">> }

IsSpace(ch) == ch \in {" ", "\n"}

\* strings.TrimSuffix(message, "\n")
TrimSuffixNewline(str) ==
    IF Len(str) > 0 /\ str[Len(str)] = "\n" THEN SubSeq(str, 1, Len(str) - 1) ELSE str

RECURSIVE TrimSpace(_)
\* strings.TrimSpace
TrimSpace(str) ==
    IF Len(str) = 0 THEN str
    ELSE IF IsSpace(str[1]) THEN TrimSpace(Tail(str))
    ELSE IF IsSpace(str[Len(str)]) THEN TrimSpace(SubSeq(str, 1, Len(str) - 1))
    ELSE str

\* the delay is never over
WithinFloodDelay_Always(since) == TRUE

\* time.Since(_globals.lastOccurrence) < floodDelay
WithinFloodDelay(since) == since < floodDelay

\* the state of _globals after the flood control let the message through,
\* the logger and the file having been opened or not
Emit(g, severity, message, loggerOpened, fileOpened) ==
    LET g1 == [g EXCEPT !.lastOccurrence = logClock]
        g2 == IF g1.useSyslog /\ ~g1.systemLogger /\ loggerOpened
              THEN [g1 EXCEPT !.systemLogger = TRUE] ELSE g1
        g3 == IF g2.fileName /\ ~g2.outFd /\ fileOpened
              THEN [g2 EXCEPT !.outFd = TRUE] ELSE g2
    IN  [globals |-> g3,
         outcome |-> IF g3.systemLogger THEN "syslog"
                     ELSE IF g3.outFd THEN "file" ELSE "stderr",
         returned |-> IF g3.systemLogger THEN NilString ELSE StringPtr(message)]

\* logf(severity, format, args...): formatted is fmt.Sprintf(format, args...)
logf(g, severity, formatted, loggerOpened, fileOpened) ==
    LET message == TrimSpace(TrimSuffixNewline(formatted))
        quiet(what) == [globals |-> g, outcome |-> what, returned |-> NilString]
    IN  IF severity < g.logLevel THEN quiet("filtered")
        ELSE IF Len(message) <= 0 THEN quiet("empty")
        ELSE IF g.lastMessage = message
        THEN IF WithinFloodDelay(logClock - g.lastOccurrence)
             THEN LET g1 == [g EXCEPT !.occurrences = @ + 1] IN
                  IF g1.occurrences > floodMinRepeats
                  THEN [globals |-> g1, outcome |-> "dropped", returned |-> NilString]
                  ELSE Emit(g1, severity, message, loggerOpened, fileOpened)
             ELSE Emit(g, severity, message, loggerOpened, fileOpened)
        ELSE Emit([g EXCEPT !.occurrences = 0, !.lastMessage = message],
                  severity, message, loggerOpened, fileOpened)

InitLog ==
    /\ CertIdle
    /\ CacheIdle
    /\ TTLIdle
    /\ KeyIdle
    /\ \E level \in Severities, syslog \in BOOLEAN, file \in BOOLEAN :
         globals = GlobalsWith(level, syslog, file)
    /\ logClock = 0
    /\ logCalls = 0
    /\ lastLog = NoLogCall
    /\ FlowsIdle
    /\ TxtIdle

\* Errorf, from what its logf call returned: the pointer is dereferenced,
\* which panics when it is nil, and the string becomes the error
Errorf(returned) ==
    IF returned.isNil
    THEN [panics |-> TRUE, error |-> <<>>]
    ELSE [panics |-> FALSE, error |-> returned.value]

\* newSystemLogger and os.OpenFile succeed or fail, when they are called
OpenOutcomes(called) == IF called THEN BOOLEAN ELSE {FALSE}

\* one call of logf, by any of the logging functions
Logf ==
    /\ logCalls < MaxLogCalls
    /\ \E severity \in CallSeverities, formatted \in Formatted,
          loggerOpened \in OpenOutcomes(globals.useSyslog /\ ~globals.systemLogger),
          fileOpened \in OpenOutcomes(globals.fileName /\ ~globals.outFd) :
         LET r == logf(globals, severity, formatted, loggerOpened, fileOpened) IN
           /\ globals' = r.globals
           /\ lastLog' = [severity |-> severity,
                          message |-> TrimSpace(TrimSuffixNewline(formatted)),
                          outcome |-> r.outcome, returned |-> r.returned]
    /\ logCalls' = logCalls + 1
    /\ UNCHANGED <<logClock, certVars, cacheVars, ttlVars, keyVars, flowVars, txtVars>>

\* a second passes
LogTick ==
    /\ logClock < MaxLogClock
    /\ logClock' = logClock + 1
    /\ UNCHANGED <<globals, logCalls, lastLog, certVars, cacheVars, ttlVars, keyVars, flowVars, txtVars>>

NextLog == Logf \/ LogTick

SpecLog == InitLog /\ [][NextLog]_vars

\* ------------------------------------------------------------------------
\* Several query flows on one cache: each runs PluginCache.Eval, and on a
\* miss PluginCacheResponse.Eval, with no lock around the plugins
\* ------------------------------------------------------------------------
\* the addresses the store or a flow still hold
ReferencedByFlows(c, fl) ==
    { c[key].msg : key \in Resident(c) }
        \cup (UNION { {fl[f].synthResponse, fl[f].stale, fl[f].response, fl[f].synth.msg} :
                        f \in FlowIds } \ {0})

CollectForFlows(h, c, fl) ==
    [p \in Ptrs |-> IF p \in ReferencedByFlows(c, fl) THEN h[p] ELSE FreeMsg]

InitFlows ==
    /\ CertIdle
    /\ CacheIdle
    /\ TTLIdle
    /\ KeyIdle
    /\ LogIdle
    /\ FlowsIdle
    /\ TxtIdle

\* a query enters the pipeline of flow f
FlowQuery(f) ==
    /\ flows[f].stage \in {"idle", "done"}
    /\ flowQueries < MaxFlowQueries
    /\ flowQueries' = flowQueries + 1
    /\ \E id \in QueryIds, key \in Keys :
         LET fl == [flows EXCEPT ![f] = [IdleFlow EXCEPT !.Id = id, !.hash_key = key,
                                                        !.stage = "lookup"]]
         IN  /\ flows' = fl
             /\ heap' = CollectForFlows(heap, cache, fl)
    /\ UNCHANGED <<clock, cache, session, stage, queries, certVars, ttlVars, keyVars, logVars, txtVars>>

\* PluginCache.Eval of flow f, up to the writes of the id and of the flags
\* through the pointer of the stored CachedResponse
FlowGet(f) ==
    /\ flows[f].stage = "lookup"
    /\ LET e == CacheGet(cache, flows[f].hash_key) IN
         IF ~e.present
         THEN /\ flows' = [flows EXCEPT ![f].stage = "resolve"]
              /\ heap' = heap
         ELSE /\ heap' = [heap EXCEPT ![e.msg].Id = flows[f].Id,
                                      ![e.msg].Response = TRUE,
                                      ![e.msg].Compress = TRUE]
              /\ flows' = [flows EXCEPT ![f].stage = "synth", ![f].synth = e]
    /\ UNCHANGED <<clock, cache, session, stage, queries, flowQueries,
                   certVars, ttlVars, keyVars, logVars, txtVars>>

\* PluginCache.Eval of flow f, from the comparison of the time on
FlowSynth(f) ==
    /\ flows[f].stage = "synth"
    /\ LET m == flows[f].synth.msg
           expiration == flows[f].synth.expiration
       IN  IF Expired(clock, expiration)
           THEN /\ flows' = [flows EXCEPT ![f].stale = m, ![f].stage = "resolve"]
                /\ heap' = heap
           ELSE /\ heap' = updateTTL(heap, m, expiration, clock)
                /\ flows' = [flows EXCEPT ![f].synthResponse = m,
                                          ![f].state = "synth",
                                          ![f].CacheHit = TRUE,
                                          ![f].stage = "done"]
    /\ UNCHANGED <<clock, cache, session, stage, queries, flowQueries,
                   certVars, ttlVars, keyVars, logVars, txtVars>>

\* the upstream server answers the query of flow f
FlowResolve(f) ==
    /\ flows[f].stage = "resolve"
    /\ \E p \in Ptrs : ~heap[p].alloc
    /\ \E r \in Responses :
         LET p == FreePtr(heap) IN
           /\ heap' = [heap EXCEPT ![p] = [r EXCEPT !.Id = flows[f].Id]]
           /\ flows' = [flows EXCEPT ![f].response = p, ![f].stage = "insert"]
    /\ UNCHANGED <<clock, cache, session, stage, queries, flowQueries,
                   certVars, ttlVars, keyVars, logVars, txtVars>>

\* PluginCacheResponse.Eval of flow f
FlowInsert(f) ==
    /\ flows[f].stage = "insert"
    /\ LET m == flows[f].response
           msg == heap[m]
       IN  IF ~Cacheable(msg)
           THEN UNCHANGED <<heap, cache>>
           ELSE \E victim \in Victims(cache, flows[f].hash_key) :
                LET ttl == getMinTTL(msg, CacheMinTTL, CacheMaxTTL,
                                     CacheNegMinTTL, CacheNegMaxTTL)
                    expiration == clock + ttl
                IN  /\ cache' = CacheAdd(cache, flows[f].hash_key,
                                         CachedResponse(m, expiration), victim)
                    /\ heap' = updateTTL(heap, m, expiration, clock)
    /\ flows' = [flows EXCEPT ![f].stage = "done"]
    /\ UNCHANGED <<clock, session, stage, queries, flowQueries,
                   certVars, ttlVars, keyVars, logVars, txtVars>>

NextFlows ==
    \E f \in FlowIds :
        \/ FlowQuery(f)
        \/ FlowGet(f)
        \/ FlowSynth(f)
        \/ FlowResolve(f)
        \/ FlowInsert(f)

SpecFlows == InitFlows /\ [][NextFlows]_vars

\* ------------------------------------------------------------------------
\* packTxtString: bytes are numbers ('\\' 92, '0' 48, '3' 51, 'a' 97,
\* 'n' 110, 'r' 114, 't' 116)
\* ------------------------------------------------------------------------
TxtBytes == {92, 48, 51, 97, 110, 114, 116}

isDigit(b) == b >= 48 /\ b <= 57

\* dddToByte, in arithmetic on bytes
dddToByte(s0, s1, s2) == ((s0 - 48) * 100 + (s1 - 48) * 10 + (s2 - 48)) % 256

InitTxt ==
    /\ CertIdle
    /\ CacheIdle
    /\ TTLIdle
    /\ KeyIdle
    /\ LogIdle
    /\ FlowsIdle
    /\ txtBs \in SeqsUpTo(TxtBytes, MaxTxtLen)
    /\ txtI = 1
    /\ txtMsg = <<>>
    /\ txtPc = "loop"

\* one iteration of the loop of packTxtString
PackStep ==
    /\ txtPc = "loop"
    /\ txtI <= Len(txtBs)
    /\ IF txtBs[txtI] = 92
       THEN LET j == txtI + 1 IN
            IF j = Len(txtBs) + 1
            THEN /\ txtPc' = "done"
                 /\ txtI' = j
                 /\ txtMsg' = txtMsg
            ELSE IF j + 2 <= Len(txtBs) /\ isDigit(txtBs[j]) /\ isDigit(txtBs[j + 1])
                    /\ isDigit(txtBs[j + 2])
            THEN /\ txtMsg' = Append(txtMsg, dddToByte(txtBs[j], txtBs[j + 1], txtBs[j + 2]))
                 /\ txtI' = j + 3
                 /\ txtPc' = txtPc
            ELSE /\ txtMsg' = Append(txtMsg,
                                     CASE txtBs[j] = 116 -> 9
                                       [] txtBs[j] = 114 -> 13
                                       [] txtBs[j] = 110 -> 10
                                       [] OTHER -> txtBs[j])
                 /\ txtI' = j + 1
                 /\ txtPc' = txtPc
       ELSE /\ txtMsg' = Append(txtMsg, txtBs[txtI])
            /\ txtI' = txtI + 1
            /\ txtPc' = txtPc
    /\ UNCHANGED <<txtBs, certVars, cacheVars, ttlVars, keyVars, logVars, flowVars>>

\* the loop ends: msg is returned
PackReturn ==
    /\ txtPc = "loop"
    /\ txtI > Len(txtBs)
    /\ txtPc' = "done"
    /\ UNCHANGED <<txtBs, txtI, txtMsg, certVars, cacheVars, ttlVars, keyVars, logVars,
                   flowVars>>

NextTxt == PackStep \/ PackReturn

SpecTxt == InitTxt /\ [][NextTxt]_vars

\* ========================================================================
\* Properties of the certificate resolver
\* ========================================================================
\* the loop over in.Answer is running or has run to its end
InParse ==
    \/ pc = "parse"
    \/ pc = "done" /\ result.status \in {"ok", "No useable certificate found"}

\* the position in the answer of the record CertInfo was last populated from
SelectedPos == IF certInfo.ServerPk = NoBytes THEN 0 ELSE certInfo.ServerPk[2]

VersionConstruction(c) == IF c.esVersion = 1 THEN 1 ELSE IF c.esVersion = 2 THEN 2 ELSE 0

\* a record that passes the length, magic, version, signature and window checks
ValidCandidate(c) ==
    /\ c.rrtype = "TXT"
    /\ c.len >= 124
    /\ c.magic = "DNSC"
    /\ c.esVersion \in {1, 2}
    /\ c.sigOk
    /\ c.tsBegin < c.tsEnd
    /\ certIgnoreTimestamp \/ (c.tsBegin <= Now /\ Now <= c.tsEnd)

ValidSoFar == { j \in 1..(k - 1) : ValidCandidate(in.Answer[j]) }

\* C1: after any prefix of the answer has been processed (and so after the
\* whole answer), the selected certificate is a valid candidate whose serial
\* is the maximum serial over the valid candidates processed, whatever their
\* order: a higher serial replaces, a lower serial is rejected.
C1_SelectedSerialIsMax ==
    InParse =>
        IF ValidSoFar = {}
        THEN SelectedPos = 0 /\ highestSerial = 0
        ELSE /\ SelectedPos \in ValidSoFar
             /\ highestSerial = in.Answer[SelectedPos].serial
             /\ \A j \in ValidSoFar : in.Answer[j].serial <= highestSerial

\* a valid candidate with a lower serial came after the one selected
C1_Witness ==
    /\ pc = "done" /\ result.status = "ok"
    /\ Len(in.Answer) = 2
    /\ ValidCandidate(in.Answer[1]) /\ ValidCandidate(in.Answer[2])
    /\ in.Answer[2].serial < in.Answer[1].serial
    /\ SelectedPos = 1

\* C2: a valid candidate whose serial equals the serial of the accepted
\* candidate replaces it only if its construction is strictly higher;
\* otherwise the accepted server key, shared key, magic query and
\* construction stay as they are.
C2_EqualSerialNeedsHigherConstruction ==
    [][ ( /\ pc = "parse" /\ k <= Len(in.Answer) /\ k' = k + 1
          /\ ValidCandidate(in.Answer[k])
          /\ SelectedPos # 0
          /\ in.Answer[k].serial = highestSerial )
        => IF VersionConstruction(in.Answer[k]) > certInfo.CryptoConstruction
           THEN certInfo'.ServerPk = ServerPkOf(k)
           ELSE /\ certInfo'.ServerPk = certInfo.ServerPk
                /\ certInfo'.SharedKey = certInfo.SharedKey
                /\ certInfo'.MagicQuery = certInfo.MagicQuery
                /\ certInfo'.CryptoConstruction = certInfo.CryptoConstruction
      ]_vars

\* a record that is too short, has a wrong magic, an unsupported version or
\* a signature that does not verify
Malformed(c) ==
    \/ c.len < 124
    \/ c.magic # "DNSC"
    \/ c.esVersion \notin {1, 2}
    \/ ~c.sigOk

C3_FieldsFromWellFormed ==
    (InParse /\ SelectedPos # 0) =>
        /\ ~Malformed(in.Answer[SelectedPos])
        /\ certInfo.MagicQuery = MagicQueryOf(SelectedPos)
        /\ certInfo.SharedKey[3] = ServerPkOf(SelectedPos)
        /\ certInfo.CryptoConstruction = VersionConstruction(in.Answer[SelectedPos])
        /\ highestSerial = in.Answer[SelectedPos].serial

C3_MalformedStep ==
    ( /\ pc = "parse" /\ k <= Len(in.Answer) /\ k' = k + 1
      /\ Malformed(in.Answer[k]) )
    => (certInfo' = certInfo /\ highestSerial' = highestSerial)

\* C3: a malformed record (too short, wrong magic, unsupported version, bad
\* signature) changes neither CertInfo nor the highest serial when it is
\* processed, at any position and with any serial, and every field of the
\* selected CertInfo comes from one record that is not malformed.
C3_MalformedNeverContributes ==
    [](C3_FieldsFromWellFormed) /\ [][C3_MalformedStep]_vars

\* a malformed record with the highest serial was processed after a
\* well-formed one with a lower serial, which stays selected
C3_Witness ==
    /\ pc = "done" /\ result.status = "ok"
    /\ Len(in.Answer) = 2
    /\ Malformed(in.Answer[2]) /\ in.Answer[2].serial > in.Answer[1].serial
    /\ SelectedPos = 1

\* C4 as stated: the selected candidate's window has start < end, and with
\* timestamp checking enabled start <= now < end.
C4_WindowHalfOpen ==
    (InParse /\ SelectedPos # 0) =>
        LET c == in.Answer[SelectedPos] IN
            /\ c.tsBegin < c.tsEnd
            /\ ~certIgnoreTimestamp => (c.tsBegin <= Now /\ Now < c.tsEnd)

\* C4 amended: the selected candidate's window has start < end, whether or
\* not timestamp checking is disabled, and with timestamp checking enabled
\* start <= now <= end (the end of the window is included).
C4_WindowClosed ==
    (InParse /\ SelectedPos # 0) =>
        LET c == in.Answer[SelectedPos] IN
            /\ c.tsBegin < c.tsEnd
            /\ ~certIgnoreTimestamp => (c.tsBegin <= Now /\ Now <= c.tsEnd)

\* with timestamp checking enabled, a candidate whose window ends now is
\* selected although another record of the answer was rejected
C4_Witness ==
    /\ pc = "done" /\ result.status = "ok"
    /\ ~certIgnoreTimestamp
    /\ Len(in.Answer) = 2
    /\ SelectedPos = 1
    /\ in.Answer[1].tsEnd = Now
    /\ in.Answer[2].serial > in.Answer[1].serial /\ in.Answer[2].tsBegin > Now /\ ~Malformed(in.Answer[2])

\* C7: on success the forward_secure flag of the returned CertInfo is that of
\* the selected candidate: true iff its window is at most 7 days long.
C7_ForwardSecurityOfWinner ==
    (pc = "done" /\ result.status = "ok") =>
        LET c == in.Answer[SelectedPos] IN
            result.certInfo.ForwardSecurity = (c.tsEnd - c.tsBegin <= 7 * 86400)

\* the step processes the record at position k and accepts it: the server
\* key, the magic query and the construction are all taken from that record
AcceptingStep ==
    /\ certInfo'.ServerPk = ServerPkOf(k)
    /\ certInfo'.MagicQuery = MagicQueryOf(k)
    /\ certInfo'.CryptoConstruction = VersionConstruction(in.Answer[k])
    /\ certInfo'.CryptoConstruction \in {1, 2}

C15_CandidateStep ==
    (pc = "parse" /\ k <= Len(in.Answer) /\ k' = k + 1) =>
        \/ AcceptingStep
        \/ /\ certInfo'.ServerPk = certInfo.ServerPk
           /\ certInfo'.MagicQuery = certInfo.MagicQuery
           /\ certInfo'.CryptoConstruction = certInfo.CryptoConstruction

C15_Returned ==
    (pc = "done" /\ result.status \in {"ok", "No useable certificate found"}) =>
        /\ result.status = "No useable certificate found" <=> SelectedPos = 0
        /\ result.status = "ok" =>
             /\ result.certInfo.CryptoConstruction \in {1, 2}
             /\ result.certInfo.ServerPk = ServerPkOf(SelectedPos)
             /\ result.certInfo.MagicQuery = MagicQueryOf(SelectedPos)
             /\ result.certInfo.CryptoConstruction =
                    VersionConstruction(in.Answer[SelectedPos])

\* C15: once the answer is parsed, the call fails with "No useable
\* certificate found" if and only if no record was accepted; when it
\* succeeds, the construction returned is XSalsa20Poly1305 or
\* XChacha20Poly1305, never undefined, and the server key and the magic
\* query returned are bytes [72:104] and [104:112] of the accepted record
\* the construction comes from. A step of the loop either accepts its record
\* and takes all three from it, or leaves all three as they are.
C15_SuccessIffAccepted ==
    [](C15_Returned) /\ [][C15_CandidateStep]_vars

\* the second record of the answer replaced the first one, and brought
\* another construction
C15_Witness ==
    /\ pc = "done" /\ result.status = "ok"
    /\ Len(in.Answer) = 2
    /\ ValidCandidate(in.Answer[1]) /\ ValidCandidate(in.Answer[2])
    /\ in.Answer[1].esVersion = 1 /\ in.Answer[2].esVersion = 2
    /\ in.Answer[2].serial > in.Answer[1].serial
    /\ result.certInfo.MagicQuery = MagicQueryOf(2)
    /\ result.certInfo.CryptoConstruction = 2

\* ------------------------------------------------------------------------
\* Properties of the relay loop and of dnsExchange
\* ------------------------------------------------------------------------
\* the number of _dnsExchange attempts made so far
TotalAttempts ==
    Len(calls) + Cardinality({ j \in 1..Len(calls) : Len(calls[j].attempts) = 2 })

\* the call for relay j got its response through the relay itself
ThroughRelay(j) == calls[j].relay # NoRelay /\ ~calls[j].firstErr

\* C5: with a non-empty relay list (and a well-formed public key), the call
\* fails with "all relays failed" if no relay attempt completed through the
\* relay; otherwise it does not fail because of transport and parses the
\* response of the attempt made for the last relay of the list.
C5_UsableRelayMeansNoTransportFailure ==
    (pc = "done" /\ Len(relays) > 0 /\ pkLen = 32) =>
        IF \A j \in 1..Len(calls) : ~ThroughRelay(j)
        THEN result.status = "all relays failed"
        ELSE /\ result.status \in {"ok", "No useable certificate found"}
             /\ ~calls[Len(calls)].err
             /\ in = calls[Len(calls)].response

\* what one dnsExchange call did, read from its record: one attempt with the
\* relay given, one direct retry exactly when that attempt failed and a relay
\* was given, and a false flag exactly when the response returned came
\* through the relay
C6_CallShape(c) ==
    /\ c.attempts[1] = c.relay
    /\ Len(c.attempts) = (IF c.relay # NoRelay /\ c.firstErr THEN 2 ELSE 1)
    /\ Len(c.attempts) = 2 => c.attempts[2] = NoRelay
    /\ (c.relay_f = FALSE) <=> (~c.err /\ c.relay # NoRelay /\ Len(c.attempts) = 1)

ReturnStatuses ==
    {"ok", "Invalid public key length", "all relays failed", "transport",
     "No useable certificate found"}

C6_Calls ==
    /\ \A j \in 1..Len(calls) : C6_CallShape(calls[j])
    /\ Len(relays) > 0 => TotalAttempts <= 2 * Len(relays)
    /\ Len(relays) = 0 => TotalAttempts <= 1
    /\ pc = "done" <=> result.status \in ReturnStatuses

\* C6 as stated: ... and a call with no relays has made exactly one attempt
\* when it returns.
C6_ExactlyOneWithoutRelays ==
    /\ C6_Calls
    /\ (pc = "done" /\ Len(relays) = 0) => TotalAttempts = 1

C6_CallsAmended ==
    /\ C6_Calls
    /\ (pc = "done" /\ Len(relays) = 0) =>
           TotalAttempts = (IF pkLen = 32 THEN 1 ELSE 0)

\* C6 amended: dnsExchange makes the attempt with the relay once and exactly
\* one direct retry only if that attempt failed and a relay was given; the
\* flag returned is false exactly when the successful response came through
\* the relay; every FetchCurrentDNSCryptCert call returns, a result or a
\* failure, after at most 2*len(relays) attempts, and with no relays after
\* exactly 1 attempt when the public key has the right length and after none
\* when it has not.
C6_BoundedAttemptsAndReturn ==
    [](C6_CallsAmended) /\ <>(pc = "done")

\* the most attempts a call can make: every relay failed and was retried
C6_Witness ==
    /\ pc = "done"
    /\ Len(relays) = 2
    /\ TotalAttempts = 2 * Len(relays)

RECURSIVE CompletedThroughRelay(_)
\* the relays, in list order, among the first n of the list whose exchange
\* got its response through the relay itself
CompletedThroughRelay(n) ==
    IF n = 0 THEN <<>>
    ELSE IF ThroughRelay(n)
         THEN Append(CompletedThroughRelay(n - 1), relays[n])
         ELSE CompletedThroughRelay(n - 1)

\* C16: with a non-empty relay list, the working set is at every point of
\* the loop, and in the result of a successful call, exactly the relays (in
\* list order) whose exchange completed through the relay itself; a relay
\* whose attempt fell back to a direct connection, or failed entirely, is
\* not in it.
C16_UsableRelaysAreThoseNotFallenBack ==
    Len(relays) > 0 =>
        /\ \A j \in 1..Len(calls) : calls[j].relay = relays[j]
        /\ workingSet = CompletedThroughRelay(Len(calls))
        /\ (pc = "done" /\ result.status = "ok") =>
               /\ Len(calls) = Len(relays)
               /\ result.workingSet = CompletedThroughRelay(Len(relays))

\* of two relays the first fell back to a direct connection that worked and
\* the second answered itself: only the second is returned
C16_Witness ==
    /\ pc = "done" /\ result.status = "ok"
    /\ Len(relays) = 2
    /\ calls[1].firstErr /\ ~calls[1].err
    /\ ~calls[2].firstErr
    /\ result.workingSet = <<relays[2]>>

\* ========================================================================
\* Properties of the response cache
\* ========================================================================
\* the step is PluginCache.Eval finding an entry under the key of the query
LookupFinds ==
    /\ stage = "lookup" /\ stage' # "lookup"
    /\ cache[session.hash_key].present

AllTTLs(msg, ttl) ==
    /\ \A j \in DOMAIN msg.Answer : msg.Answer[j].Ttl = ttl
    /\ \A j \in DOMAIN msg.Ns : msg.Ns[j].Ttl = ttl
    /\ \A j \in DOMAIN msg.Extra : ~msg.Extra[j].opt => msg.Extra[j].Ttl = ttl

\* C8: a lookup that finds the entry inserted under its key, at a time not
\* after the entry's expiration, marks the query as a cache hit (state synth,
\* CacheHit true) and surfaces the stored message with the id of the query
\* and with every Answer, Authority and non-OPT Additional TTL equal to the
\* whole seconds left until the expiration, and 0 when none is left.
C8_FreshLookupHits ==
    [][ (LookupFinds /\ clock <= cache[session.hash_key].expiration) =>
          LET e == cache[session.hash_key]
              left == e.expiration - clock'
              seconds == IF left > 0 THEN left \div TicksPerSecond ELSE 0
          IN  /\ session'.state = "synth"
              /\ session'.CacheHit
              /\ session'.synthResponse = e.msg
              /\ heap'[e.msg].Id = session.Id
              /\ AllTTLs(heap'[e.msg], seconds)
      ]_vars

\* a second query hit the entry a first query inserted, with part of a
\* second gone since the insertion
C8_Witness ==
    /\ stage = "done" /\ queries = 2
    /\ session.CacheHit
    /\ heap[session.synthResponse].Answer # <<>>
    /\ heap[session.synthResponse].Answer[1].Ttl = SecondsPerMinute * CacheMaxTTL - 1

\* C9: a lookup after the expiration of the stored entry sets neither the
\* synthesized response, nor the synth state, nor CacheHit, goes on as a
\* miss, and puts the expired message in the stale slot; and whenever a
\* lookup does set the synthesized response, the entry was not expired.
C9_ExpiredLookupIsMiss ==
    [][ /\ (LookupFinds /\ clock > cache[session.hash_key].expiration) =>
             /\ session'.synthResponse = 0
             /\ session'.state = "none"
             /\ ~session'.CacheHit
             /\ session'.stale = cache[session.hash_key].msg
             /\ stage' = "resolve"
        /\ (session'.synthResponse # 0 /\ session.synthResponse = 0) =>
             /\ LookupFinds
             /\ session'.synthResponse = cache[session.hash_key].msg
             /\ clock <= cache[session.hash_key].expiration
      ]_vars

\* a lookup found an expired entry
C9_Witness ==
    /\ stage = "resolve"
    /\ session.stale # 0
    /\ cache[session.hash_key].present
    /\ cache[session.hash_key].msg = session.stale
    /\ clock > cache[session.hash_key].expiration
    /\ ~session.CacheHit

\* C10: PluginCacheResponse.Eval puts the response under the key of the
\* query, creating or replacing the entry, if and only if the status is
\* success, name-error or not-authoritative and the response is not
\* truncated; otherwise it leaves the store and the response as they are.
C10_InsertOnlyEligible ==
    [][ (stage = "insert" /\ stage' # "insert") =>
          LET m == session.response
              eligible == /\ heap[m].Rcode \in {"Success", "NameError", "NotAuth"}
                          /\ ~heap[m].Truncated
          IN  IF eligible
              THEN /\ cache'[session.hash_key].present
                   /\ cache'[session.hash_key].msg = m
                   /\ cache[session.hash_key].msg # m
              ELSE /\ cache' = cache
                   /\ heap' = heap
      ]_vars

\* the response of a second query replaced the expired entry of the first
C10_Witness ==
    /\ stage = "done" /\ queries = 2
    /\ session.stale # 0
    /\ session.response # 0
    /\ cache[session.hash_key].present
    /\ cache[session.hash_key].msg = session.response

\* the records of a section with their TTLs left out
WithoutTTLs(rrs) == [j \in DOMAIN rrs |-> rrs[j].opt]

\* every field of the message other than the TTLs of its records
WithoutAnyTTL(msg) ==
    [Id |-> msg.Id, Response |-> msg.Response, Compress |-> msg.Compress,
     Rcode |-> msg.Rcode, Truncated |-> msg.Truncated,
     Answer |-> WithoutTTLs(msg.Answer), Ns |-> WithoutTTLs(msg.Ns),
     Extra |-> WithoutTTLs(msg.Extra)]

\* C14: a PluginCache.Eval lookup (miss, expired hit or fresh hit) changes
\* nothing of a stored CachedResponse but the TTLs of its records: the id,
\* the response flag, the compression flag and every other field of the
\* stored message, and the expiration, are after the lookup what they were
\* before it.
C14_LookupWritesOnlyTTLs ==
    [][ (stage = "lookup" /\ stage' # "lookup") =>
          \A key \in Keys :
              cache[key].present =>
                  /\ cache'[key] = cache[key]
                  /\ WithoutAnyTTL(heap'[cache[key].msg]) = WithoutAnyTTL(heap[cache[key].msg])
      ]_vars

\* ------------------------------------------------------------------------
\* Properties of getMinTTL
\* ------------------------------------------------------------------------
Min2(a, b) == IF a < b THEN a ELSE b
Max2(a, b) == IF a > b THEN a ELSE b

\* the smallest TTL of a non-empty list of records
MinOf(rrs) == CHOOSE t \in { rrs[j].Ttl : j \in DOMAIN rrs } :
                  \A j \in DOMAIN rrs : t <= rrs[j].Ttl

\* success or name-error, with at least one answer or authority record
HasPositivePath(msg) ==
    /\ msg.Rcode \in {"Success", "NameError"}
    /\ (msg.Answer # <<>> \/ msg.Ns # <<>>)

\* C11: for a success or name-error response with at least one answer or
\* authority record, the TTL value getMinTTL computes its result from (the
\* result is that value times time.Minute) is max(floor, min(ceiling, m)),
\* m the smallest TTL of the answer records, or of the authority records
\* when there is no answer record; ceiling and floor are maxTTL and minTTL
\* for success, CacheNegMaxTTL and CacheNegMinTTL for name-error.
C11_ClampedMinimum ==
    (ttlResult # NotComputed /\ HasPositivePath(ttlMsg)) =>
        LET m == IF ttlMsg.Answer # <<>> THEN MinOf(ttlMsg.Answer) ELSE MinOf(ttlMsg.Ns)
            success == ttlMsg.Rcode = "Success"
            ceiling == IF success THEN ttlConfig.maxTTL ELSE ttlConfig.negMaxTTL
            floor == IF success THEN ttlConfig.minTTL ELSE ttlConfig.negMinTTL
        IN  ttlResult = Max2(floor, Min2(ceiling, m)) * SecondsPerMinute * TicksPerSecond

\* a success response whose second answer record has the smallest TTL, above
\* the floor and below the ceiling, and whose authority record has a lower one
C11_Witness ==
    /\ ttlResult = 1 * SecondsPerMinute * TicksPerSecond
    /\ ttlMsg.Rcode = "Success"
    /\ Len(ttlMsg.Answer) = 2
    /\ ttlMsg.Answer[1].Ttl = 2 /\ ttlMsg.Answer[2].Ttl = 1
    /\ Len(ttlMsg.Ns) = 1 /\ ttlMsg.Ns[1].Ttl = 0
    /\ ttlConfig.minTTL = 0 /\ ttlConfig.maxTTL = 2

\* C12: for a response whose status is neither success nor name-error, or
\* that has no answer and no authority record, getMinTTL returns exactly
\* CacheNegMinTTL seconds, whatever the record TTLs, minTTL, maxTTL and
\* CacheNegMaxTTL are.
C12_NegativeFloorUnmodified ==
    (ttlResult # NotComputed /\ ~HasPositivePath(ttlMsg)) =>
        ttlResult = ttlConfig.negMinTTL * TicksPerSecond

\* a server failure with records, and a negative floor above the negative
\* ceiling and different from the positive floor and ceiling
C12_Witness ==
    /\ ttlResult = 2 * TicksPerSecond
    /\ ttlMsg.Rcode = "ServerFailure"
    /\ Len(ttlMsg.Answer) = 1 /\ ttlMsg.Answer[1].Ttl = 1
    /\ ttlConfig.negMinTTL = 2 /\ ttlConfig.negMaxTTL = 1
    /\ ttlConfig.minTTL = 0 /\ ttlConfig.maxTTL = 1

\* ------------------------------------------------------------------------
\* Properties of computeCacheKey
\* ------------------------------------------------------------------------
\* the name without its trailing dot
WithoutTrailingDot(name) ==
    IF Len(name) > 0 /\ name[Len(name)] = 46 THEN SubSeq(name, 1, Len(name) - 1) ELSE name

\* two bytes that are the same letter in either case, or the same byte
SameLetter(a, b) ==
    \/ a = b
    \/ a >= 65 /\ a <= 90 /\ b = a + 32
    \/ b >= 65 /\ b <= 90 /\ a = b + 32

\* the names differ at most in letter case and in the trailing dot
DifferOnlyInCaseOrDot(n1, n2) ==
    LET a == WithoutTrailingDot(n1)
        b == WithoutTrailingDot(n2)
    IN  /\ Len(a) = Len(b)
        /\ \A j \in DOMAIN a : SameLetter(a[j], b[j])

\* C13: the key is a function of the dnssec flag, qtype, qclass and the
\* canonical name alone: two questions with the same flag, type and class
\* whose names differ only in letter case or in the trailing dot get the
\* same key, and the bytes written to the hash (big-endian qtype, big-endian
\* qclass, flag byte, canonical name) differ whenever the flag, the type,
\* the class or the canonical name differs.
C13_KeyOfNormalizedQuestion ==
    Len(keySums) = 2 =>
        LET q1 == keyArgs[1]
            q2 == keyArgs[2]
            sameHeader == /\ q1.dnssec = q2.dnssec
                          /\ q1.Qtype = q2.Qtype
                          /\ q1.Qclass = q2.Qclass
        IN  /\ (sameHeader /\ DifferOnlyInCaseOrDot(q1.Name, q2.Name))
                   => keySums[1] = keySums[2]
            /\ (~sameHeader \/ CanonicalName(q1.Name) # CanonicalName(q2.Name))
                   => keyFed[1] # keyFed[2]
            /\ Len(keyFed[1]) = 5 + Len(CanonicalName(q1.Name))
            /\ SubSeq(keyFed[1], 1, 4) =
                   <<q1.Qtype \div 256, q1.Qtype % 256, q1.Qclass \div 256, q1.Qclass % 256>>

\* "Aa" and "aA." under the same type and class get one key
C13_Witness ==
    /\ Len(keySums) = 2
    /\ keyArgs[1] = [dnssec |-> TRUE, Qtype |-> 256, Qclass |-> 1, Name |-> <<65, 97>>]
    /\ keyArgs[2] = [dnssec |-> TRUE, Qtype |-> 256, Qclass |-> 1, Name |-> <<97, 65, 46>>]
    /\ keySums[1] = keySums[2]
    /\ keyFed[1] = <<1, 0, 0, 1, 1, 97, 97, 46>>

\* ------------------------------------------------------------------------
\* Properties of the log sink
\* ------------------------------------------------------------------------
\* the step is a logf call whose message passed the level and the emptiness
\* checks, and so reached the flood control
LoggedStep ==
    /\ logCalls' = logCalls + 1
    /\ lastLog'.outcome \notin {"filtered", "empty"}

\* the message of the step is the one recorded last
Repeated == lastLog'.message = globals.lastMessage

Dropped == lastLog'.outcome = "dropped"

\* C17 as stated: once the recorded message has been repeated more than
\* floodMinRepeats times and is dropped, every further occurrence of it is
\* dropped until a different message is logged, and a different message
\* starts the repeat count again from zero.
C17_DroppedUntilMessageChanges ==
    [][ LoggedStep =>
          /\ (Repeated /\ globals.occurrences > floodMinRepeats) => Dropped
          /\ ~Repeated => globals'.occurrences = 0
      ]_vars

\* C17 amended: an occurrence of the recorded message less than floodDelay
\* after the last occurrence written raises the repeat count and is dropped
\* exactly when the count then exceeds floodMinRepeats; a dropped occurrence
\* does not restart the delay, so further occurrences are dropped only as
\* long as they come less than floodDelay after the last one written; an
\* occurrence floodDelay or more after it is written and leaves the count as
\* it is; a different message is written and starts the count from zero.
C17_DroppedWithinFloodDelay ==
    [][ LoggedStep =>
          LET since == logClock - globals.lastOccurrence IN
          /\ (Repeated /\ since < floodDelay) =>
                /\ globals'.occurrences = globals.occurrences + 1
                /\ Dropped <=> globals'.occurrences > floodMinRepeats
          /\ (Repeated /\ since >= floodDelay) =>
                /\ ~Dropped
                /\ globals'.occurrences = globals.occurrences
          /\ ~Repeated =>
                /\ ~Dropped
                /\ globals'.occurrences = 0
                /\ globals'.lastMessage = lastLog'.message
          /\ Dropped => globals'.lastOccurrence = globals.lastOccurrence
          /\ ~Dropped => globals'.lastOccurrence = logClock
      ]_vars

\* a message that was being dropped has been written again, floodDelay after
\* its last written occurrence
C17_Witness ==
    /\ lastLog.outcome \in {"stderr", "file", "syslog"}
    /\ lastLog.message = globals.lastMessage
    /\ globals.occurrences > floodMinRepeats
    /\ globals.lastOccurrence = logClock
    /\ logClock >= floodDelay

\* ------------------------------------------------------------------------
\* Properties of the lifetime of the entries
\* ------------------------------------------------------------------------
\* every TTL of the message, OPT records aside, is at most ttl
TTLsAtMost(msg, ttl) ==
    /\ \A j \in DOMAIN msg.Answer : msg.Answer[j].Ttl <= ttl
    /\ \A j \in DOMAIN msg.Ns : msg.Ns[j].Ttl <= ttl
    /\ \A j \in DOMAIN msg.Extra : ~msg.Extra[j].opt => msg.Extra[j].Ttl <= ttl

\* the larger of the ceiling and the floor that apply to the response, in
\* seconds: the positive ones for success, the negative ones otherwise
LifetimeLimit(msg) ==
    IF msg.Rcode = "Success" /\ (msg.Answer # <<>> \/ msg.Ns # <<>>)
    THEN Max2(CacheMaxTTL, CacheMinTTL)
    ELSE Max2(CacheNegMaxTTL, CacheNegMinTTL)

\* C19: for every response PluginCacheResponse.Eval inserts, the lifetime of
\* the entry (expiration minus the time of the insertion), in seconds, is at
\* most the larger of the ceiling and the floor that apply, and so is every
\* TTL written into the message at the insertion: the positive and the
\* negative path of getMinTTL give their result in the same unit.
C19_LifetimeWithinCeiling ==
    [][ (stage = "insert" /\ stage' # "insert" /\ Cacheable(heap[session.response])) =>
          LET m == session.response
              lifetime == cache'[session.hash_key].expiration - clock
          IN  /\ lifetime <= LifetimeLimit(heap[m]) * TicksPerSecond
              /\ TTLsAtMost(heap'[m], LifetimeLimit(heap[m]))
      ]_vars

\* ------------------------------------------------------------------------
\* Properties of the cache under several flows
\* ------------------------------------------------------------------------
\* C18: with several flows looking up and inserting with no lock around the
\* plugins, the synthesized response a flow holds after its lookup carries
\* the id of that flow's own query, in every interleaving.
C18_AnswerCarriesOwnId ==
    \A f \in FlowIds :
        flows[f].synthResponse # 0 =>
            heap[flows[f].synthResponse].Id = flows[f].Id

\* ------------------------------------------------------------------------
\* Properties of packTxtString
\* ------------------------------------------------------------------------
RECURSIVE Unescaped(_, _)
\* the text s read from position j on, left to right: a byte other than a
\* backslash is itself; a backslash and three digits DDD are the value DDD;
\* a backslash and t, r or n are tab, carriage return or newline; a backslash
\* and any other byte are that byte; a backslash at the end is nothing and
\* ends the reading
Unescaped(s, j) ==
    IF j > Len(s) THEN <<>>
    ELSE IF s[j] # 92 THEN <<s[j]>> \o Unescaped(s, j + 1)
    ELSE IF j = Len(s) THEN <<>>
    ELSE IF j + 3 <= Len(s) /\ isDigit(s[j + 1]) /\ isDigit(s[j + 2]) /\ isDigit(s[j + 3])
    THEN <<(s[j + 1] - 48) * 100 + (s[j + 2] - 48) * 10 + (s[j + 3] - 48)>>
             \o Unescaped(s, j + 4)
    ELSE <<CASE s[j + 1] = 116 -> 9
             [] s[j + 1] = 114 -> 13
             [] s[j + 1] = 110 -> 10
             [] OTHER -> s[j + 1]>> \o Unescaped(s, j + 2)

\* C20: packTxtString returns the text decoded left to right: bytes other
\* than a backslash verbatim; tab, carriage return, newline for \t, \r, \n;
\* the single byte of decimal value DDD for a backslash and three digits
\* DDD; the character itself for a backslash and any other character;
\* nothing, and no error, for a backslash that ends the input. The output is
\* never longer than the input.
C20_DecodesEscapes ==
    txtPc = "done" =>
        /\ txtMsg = Unescaped(txtBs, 1)
        /\ Len(txtMsg) <= Len(txtBs)

\* C21: after any sequence of logging calls, whatever the messages, the
\* severities, the log level, the timing and the sinks, a call of Errorf
\* (the calls of severity error) returns normally, with an error that
\* carries the message: also when the message is dropped by the flood
\* control, filtered by the level, empty once trimmed, or written to the
\* system logger.
C21_ErrorfReturnsError ==
    (lastLog.outcome # "none" /\ lastLog.severity = SeverityError) =>
        /\ ~Errorf(lastLog.returned).panics
        /\ Errorf(lastLog.returned).error = lastLog.message

====
